---- MODULE Spec2Model ----
(***************************************************************************)
(* Fusion360Utilities.py: rect_body_pattern, start_group / end_group and   *)
(* sketch_by_name, as state machines over the part of the host object      *)
(* model (bodies, vectors, move features, timeline) that the functions     *)
(* read and write.                                                         *)
(***************************************************************************)
EXTENDS Integers, Sequences, FiniteSets

\* ---- bounds of the model ----
MaxBodies == 2      \* |bodies| ranges over 0..MaxBodies
MaxQty == 3         \* x_qty, y_qty range over -1..MaxQty
MaxDist == 2        \* x_distance, y_distance range over -MaxDist..MaxDist
MaxAxisLen == 2     \* length of the x_axis / y_axis vectors passed in: 1..MaxAxisLen
MaxItems == 4       \* timeline items the host holds at most
MaxSketches == 4    \* sketches in the collection searched: 0..MaxSketches
NumNames == 2       \* distinct sketch names: 1..NumNames

VARIABLES
    \* rect_body_pattern: arguments
    bodies, x_qty, y_qty, x_distance, y_distance, x_axis, y_axis,
    \* rect_body_pattern: locals
    x_bodies, all_bodies, x_source, y_source, move_feats, i, j, k, pc, result,
    \* host: every body of the design, index = body identity
    design_bodies,
    \* host timeline and the script around start_group / end_group
    time_line, markerPosition, timelineGroups, start_index, created, existing, gpc,
    \* sketch_by_name
    sketches, name, return_sketch, sidx, spc

pvars == <<bodies, x_qty, y_qty, x_distance, y_distance, x_axis, y_axis,
           x_bodies, all_bodies, x_source, y_source, move_feats, i, j, k, pc,
           result, design_bodies>>
gvars == <<time_line, markerPosition, timelineGroups, start_index, created,
           existing, gpc>>
svars == <<sketches, name, return_sketch, sidx, spc>>
vars == <<pvars, gvars, svars>>

None == 0

\* ------------------------------------------------------------------------
\* Host vectors.  A vector passed as x_axis is c * u, u the unit vector of
\* the direction it had when passed in; the model keeps the coefficient c.
\* ------------------------------------------------------------------------

\* Vector3D.normalize(): in place, length becomes one, direction kept; the
\* zero vector cannot be normalized and is left as it is.
normalize(v) == IF v > 0 THEN 1 ELSE IF v < 0 THEN 0 - 1 ELSE 0

\* Vector3D.scaleBy(s): in place.
scaleBy(v, s) == v * s

\* Python range(a, b)
range(a, b) == a..(b - 1)

\* BRepBody.copyToComponent: a new body that starts where the copied one is.
copyToComponent(b) ==
    [origin |-> design_bodies[b].origin, dx |-> design_bodies[b].dx,
     dy |-> design_bodies[b].dy, copied |-> TRUE]

InSeq(s, x) == \E n \in 1..Len(s) : s[n] = x

\* MoveFeatures.add over the x direction: translates exactly the bodies of
\* the input collection.
moveX(src, t) ==
    [b \in 1..Len(design_bodies) |->
        IF InSeq(src, b)
        THEN [design_bodies[b] EXCEPT !.dx = @ + t]
        ELSE design_bodies[b]]

moveY(src, t) ==
    [b \in 1..Len(design_bodies) |->
        IF InSeq(src, b)
        THEN [design_bodies[b] EXCEPT !.dy = @ + t]
        ELSE design_bodies[b]]

\* ------------------------------------------------------------------------
\* rect_body_pattern
\* ------------------------------------------------------------------------
InitPattern ==
    /\ \E n \in 0..MaxBodies :
          /\ bodies = [b \in 1..n |-> b]
          /\ design_bodies = [b \in 1..n |-> [origin |-> b, dx |-> 0, dy |-> 0,
                                              copied |-> FALSE]]
    /\ x_qty \in (0 - 1)..MaxQty
    /\ y_qty \in (0 - 1)..MaxQty
    /\ x_distance \in (0 - MaxDist)..MaxDist
    /\ y_distance \in (0 - MaxDist)..MaxDist
    /\ x_axis \in 1..MaxAxisLen
    /\ y_axis \in 1..MaxAxisLen
    /\ x_bodies = <<>> /\ all_bodies = <<>>
    /\ x_source = <<>> /\ y_source = <<>>
    /\ move_feats = <<>>
    /\ i = 0 /\ j = 0 /\ k = 0
    /\ result = <<>>
    /\ pc = "start"

\* lines 126-133: the two collections start as the source bodies
Setup ==
    /\ pc = "start"
    /\ x_bodies' = bodies
    /\ all_bodies' = bodies
    /\ i' = 1
    /\ pc' = "xloop"
    /\ UNCHANGED <<bodies, x_qty, y_qty, x_distance, y_distance, x_axis, y_axis,
                   x_source, y_source, move_feats, j, k, result, design_bodies>>

\* line 135-138: one more turn of "for i in range(1, x_qty)"
XLoopEnter ==
    /\ pc = "xloop"
    /\ i \in range(1, x_qty)
    /\ x_source' = <<>>
    /\ k' = 1
    /\ pc' = "xcopy"
    /\ UNCHANGED <<bodies, x_qty, y_qty, x_distance, y_distance, x_axis, y_axis,
                   x_bodies, all_bodies, y_source, move_feats, i, j, result,
                   design_bodies>>

\* lines 140-144: one turn of "for body in bodies"
XCopy ==
    /\ pc = "xcopy"
    /\ k <= Len(bodies)
    /\ LET new_body == Len(design_bodies) + 1 IN
          /\ design_bodies' = Append(design_bodies, copyToComponent(bodies[k]))
          /\ x_source' = Append(x_source, new_body)
          /\ x_bodies' = Append(x_bodies, new_body)
          /\ all_bodies' = Append(all_bodies, new_body)
    /\ k' = k + 1
    /\ UNCHANGED <<bodies, x_qty, y_qty, x_distance, y_distance, x_axis, y_axis,
                   y_source, move_feats, i, j, pc, result>>

\* lines 146-152: the x move feature of this turn
XMove ==
    /\ pc = "xcopy"
    /\ k > Len(bodies)
    /\ x_axis' = scaleBy(normalize(x_axis), x_distance * i)
    /\ move_feats' = Append(move_feats, [input |-> x_source, axis |-> "x",
                                         translation |-> x_axis'])
    /\ design_bodies' = moveX(x_source, x_axis')
    /\ i' = i + 1
    /\ pc' = "xloop"
    /\ UNCHANGED <<bodies, x_qty, y_qty, x_distance, y_distance, y_axis,
                   x_bodies, all_bodies, x_source, y_source, j, k, result>>

\* line 135 -> 154: the x loop is over
XLoopExit ==
    /\ pc = "xloop"
    /\ i \notin range(1, x_qty)
    /\ j' = 1
    /\ pc' = "yloop"
    /\ UNCHANGED <<bodies, x_qty, y_qty, x_distance, y_distance, x_axis, y_axis,
                   x_bodies, all_bodies, x_source, y_source, move_feats, i, k,
                   result, design_bodies>>

\* lines 154-156: one more turn of "for j in range(1, y_qty)"
YLoopEnter ==
    /\ pc = "yloop"
    /\ j \in range(1, y_qty)
    /\ y_source' = <<>>
    /\ k' = 1
    /\ pc' = "ycopy"
    /\ UNCHANGED <<bodies, x_qty, y_qty, x_distance, y_distance, x_axis, y_axis,
                   x_bodies, all_bodies, x_source, move_feats, i, j, result,
                   design_bodies>>

\* line 158: the collection the y loop iterates
YLoopSourceBodies == bodies
YLoopSource == x_bodies

\* lines 159-161: what one turn of the y loop's inner loop adds to x_bodies
YCopyExtends(b) == <<b>>
YCopyAdds(b) == <<>>

\* lines 158-161: one turn of "for body in x_bodies"
YCopy ==
    /\ pc = "ycopy"
    /\ k <= Len(YLoopSource)
    /\ LET new_body == Len(design_bodies) + 1 IN
          /\ design_bodies' = Append(design_bodies, copyToComponent(YLoopSource[k]))
          /\ y_source' = Append(y_source, new_body)
          /\ all_bodies' = Append(all_bodies, new_body)
          /\ x_bodies' = x_bodies \o YCopyAdds(new_body)
    /\ k' = k + 1
    /\ UNCHANGED <<bodies, x_qty, y_qty, x_distance, y_distance, x_axis, y_axis,
                   x_source, move_feats, i, j, pc, result>>

\* lines 163-169: the y move feature of this turn
YMove ==
    /\ pc = "ycopy"
    /\ k > Len(YLoopSource)
    /\ y_axis' = scaleBy(normalize(y_axis), y_distance * j)
    /\ move_feats' = Append(move_feats, [input |-> y_source, axis |-> "y",
                                         translation |-> y_axis'])
    /\ design_bodies' = moveY(y_source, y_axis')
    /\ j' = j + 1
    /\ pc' = "yloop"
    /\ UNCHANGED <<bodies, x_qty, y_qty, x_distance, y_distance, x_axis,
                   x_bodies, all_bodies, x_source, y_source, i, k, result>>

\* line 171
Return ==
    /\ pc = "yloop"
    /\ j \notin range(1, y_qty)
    /\ result' = all_bodies
    /\ pc' = "done"
    /\ UNCHANGED <<bodies, x_qty, y_qty, x_distance, y_distance, x_axis, y_axis,
                   x_bodies, all_bodies, x_source, y_source, move_feats, i, j, k,
                   design_bodies>>

\* ------------------------------------------------------------------------
\* start_group / end_group around host operations that add timeline items
\* ------------------------------------------------------------------------
InitGroup ==
    /\ time_line = <<>>
    /\ markerPosition = 0
    /\ timelineGroups = <<>>
    /\ start_index = 0
    /\ created = {}
    /\ existing = {}
    /\ gpc = "before"

InsertAt(s, p, x) == SubSeq(s, 1, p) \o <<x>> \o SubSeq(s, p + 1, Len(s))

\* A host call that adds a feature (extrudes.add, move_feats.add,
\* combine_features.add): the new item goes in at the marker, which moves
\* past it.
AddTimelineItem ==
    /\ gpc \in {"before", "open"}
    /\ Len(time_line) < MaxItems
    /\ LET item == Len(time_line) + 1 IN
          /\ time_line' = InsertAt(time_line, markerPosition, item)
          /\ created' = IF gpc = "open" THEN created \cup {item} ELSE created
    /\ markerPosition' = markerPosition + 1
    /\ UNCHANGED <<timelineGroups, start_index, existing, gpc>>

\* The user rolls the timeline marker, before the script runs.
MoveMarker ==
    /\ gpc = "before"
    /\ \E p \in 0..Len(time_line) :
          /\ p # markerPosition
          /\ markerPosition' = p
    /\ UNCHANGED <<time_line, timelineGroups, start_index, created, existing, gpc>>

\* lines 51-58
start_group ==
    /\ gpc = "before"
    /\ start_index' = markerPosition
    /\ existing' = {time_line[n] : n \in 1..Len(time_line)}
    /\ gpc' = "open"
    /\ UNCHANGED <<time_line, markerPosition, timelineGroups, created>>

\* line 67
EndIndexAtMarker == markerPosition
EndIndex == markerPosition - 1

\* lines 62-69
end_group ==
    /\ gpc = "open"
    /\ timelineGroups' = Append(timelineGroups,
                                [first |-> start_index, last |-> EndIndex])
    /\ gpc' = "closed"
    /\ UNCHANGED <<time_line, markerPosition, start_index, created, existing>>

\* ------------------------------------------------------------------------
\* sketch_by_name
\* ------------------------------------------------------------------------
SeqsUpTo(S, n) == UNION {[1..m -> S] : m \in 0..n}

InitSketch ==
    /\ sketches \in SeqsUpTo(1..NumNames, MaxSketches)
    /\ name \in 1..NumNames
    /\ return_sketch = None
    /\ sidx = 1
    /\ spc = "loop"

\* lines 92-94, returning at the first match
SketchStepFirstMatch ==
    /\ spc = "loop"
    /\ sidx <= Len(sketches)
    /\ IF sketches[sidx] = name
       THEN return_sketch' = sidx /\ spc' = "done" /\ sidx' = sidx
       ELSE return_sketch' = return_sketch /\ spc' = spc /\ sidx' = sidx + 1
    /\ UNCHANGED <<sketches, name>>

\* lines 92-94: one turn of "for sketch in sketches"
SketchStep ==
    /\ spc = "loop"
    /\ sidx <= Len(sketches)
    /\ return_sketch' = IF sketches[sidx] = name THEN sidx ELSE return_sketch
    /\ sidx' = sidx + 1
    /\ UNCHANGED <<sketches, name, spc>>

\* line 96
SketchReturn ==
    /\ spc = "loop"
    /\ sidx > Len(sketches)
    /\ spc' = "done"
    /\ UNCHANGED <<sketches, name, return_sketch, sidx>>

\* ------------------------------------------------------------------------
\* Specifications
\* ------------------------------------------------------------------------
IdlePattern ==
    /\ bodies = <<>> /\ design_bodies = <<>>
    /\ x_qty = 0 /\ y_qty = 0 /\ x_distance = 0 /\ y_distance = 0
    /\ x_axis = 1 /\ y_axis = 1
    /\ x_bodies = <<>> /\ all_bodies = <<>> /\ x_source = <<>> /\ y_source = <<>>
    /\ move_feats = <<>> /\ i = 0 /\ j = 0 /\ k = 0 /\ result = <<>>
    /\ pc = "idle"

IdleGroup ==
    /\ time_line = <<>> /\ markerPosition = 0 /\ timelineGroups = <<>>
    /\ start_index = 0 /\ created = {} /\ existing = {} /\ gpc = "idle"

IdleSketch ==
    /\ sketches = <<>> /\ name = 1 /\ return_sketch = None /\ sidx = 1
    /\ spc = "idle"

Init == InitPattern /\ IdleGroup /\ IdleSketch

Next ==
    \/ Setup /\ UNCHANGED <<gvars, svars>>
    \/ XLoopEnter /\ UNCHANGED <<gvars, svars>>
    \/ XCopy /\ UNCHANGED <<gvars, svars>>
    \/ XMove /\ UNCHANGED <<gvars, svars>>
    \/ XLoopExit /\ UNCHANGED <<gvars, svars>>
    \/ YLoopEnter /\ UNCHANGED <<gvars, svars>>
    \/ YCopy /\ UNCHANGED <<gvars, svars>>
    \/ YMove /\ UNCHANGED <<gvars, svars>>
    \/ Return /\ UNCHANGED <<gvars, svars>>

Spec == Init /\ [][Next]_vars

InitG == IdlePattern /\ InitGroup /\ IdleSketch

NextG ==
    \/ AddTimelineItem /\ UNCHANGED <<pvars, svars>>
    \/ MoveMarker /\ UNCHANGED <<pvars, svars>>
    \/ start_group /\ UNCHANGED <<pvars, svars>>
    \/ end_group /\ UNCHANGED <<pvars, svars>>

SpecGroup == InitG /\ [][NextG]_vars

InitS == IdlePattern /\ IdleGroup /\ InitSketch

NextS ==
    \/ SketchStep /\ UNCHANGED <<pvars, gvars>>
    \/ SketchReturn /\ UNCHANGED <<pvars, gvars>>

SpecSketch == InitS /\ [][NextS]_vars

FairSpec == Spec /\ WF_vars(Next)

\* ------------------------------------------------------------------------
\* Properties
\* ------------------------------------------------------------------------
Max(a, b) == IF a >= b THEN a ELSE b
MaxOf(S) == CHOOSE m \in S : \A n \in S : n <= m

\* positions of the returned collection that hold a body derived from b
DerivedFrom(b) == {p \in 1..Len(result) : design_bodies[result[p]].origin = b}

\* positions of the returned collection whose body is derived from b and
\* displaced by ex along the x direction and ey along the y direction
AtCell(b, ex, ey) ==
    {p \in DerivedFrom(b) : /\ design_bodies[result[p]].dx = ex
                            /\ design_bodies[result[p]].dy = ey}

NumCopies == Len(design_bodies) - Len(bodies)

\* C1: with x_qty >= 1 and y_qty >= 1 the returned collection holds exactly
\* x_qty * y_qty * |bodies| bodies: first the source bodies themselves, then
\* pairwise different bodies made by copyToComponent, x_qty * y_qty bodies
\* for each source body in all.
C1_ReturnsQtyTimesBodies ==
    (pc = "done" /\ x_qty >= 1 /\ y_qty >= 1) =>
        /\ Len(result) = x_qty * y_qty * Len(bodies)
        /\ SubSeq(result, 1, Len(bodies)) = bodies
        /\ \A p \in (Len(bodies) + 1)..Len(result) :
              /\ result[p] \in 1..Len(design_bodies)
              /\ design_bodies[result[p]].copied
        /\ \A p, q \in 1..Len(result) : result[p] = result[q] => p = q
        /\ \A b \in 1..Len(bodies) : Cardinality(DerivedFrom(b)) = x_qty * y_qty
        /\ NumCopies = (x_qty * y_qty - 1) * Len(bodies)

C1_Witness ==
    /\ pc = "done" /\ x_qty = 3 /\ y_qty = 2 /\ Len(bodies) = 2
    /\ Len(result) = 12

\* C2: with x_qty >= 1, y_qty >= 1 and nonzero distances, for every source
\* body b and every cell (ci, cj) of the rectangle exactly one returned body
\* derived from b is displaced by ci * x_distance along x and cj * y_distance
\* along y.
C2_RectangularGrid ==
    (pc = "done" /\ x_qty >= 1 /\ y_qty >= 1 /\ x_distance # 0 /\ y_distance # 0) =>
        \A b \in 1..Len(bodies) :
            \A ci \in 0..(x_qty - 1), cj \in 0..(y_qty - 1) :
                Cardinality(AtCell(b, ci * x_distance, cj * y_distance)) = 1

\* The grid of C2 restricted to positive distances.
GridWhenDistancesPositive ==
    (pc = "done" /\ x_qty >= 1 /\ y_qty >= 1 /\ x_distance > 0 /\ y_distance > 0) =>
        \A b \in 1..Len(bodies) :
            \A ci \in 0..(x_qty - 1), cj \in 0..(y_qty - 1) :
                Cardinality(AtCell(b, ci * x_distance, cj * y_distance)) = 1

\* C3: after start_group, n >= 1 item-adding operations and end_group, one
\* timeline group was added; it runs from the marker position start_group
\* read to that position + n - 1, the items in that range are exactly the n
\* items created in between, and none of them existed before start_group.
C3_GroupCoversCreatedItems ==
    (gpc = "closed" /\ Cardinality(created) >= 1) =>
        /\ Len(timelineGroups) = 1
        /\ timelineGroups[1].first = start_index
        /\ timelineGroups[1].last = start_index + Cardinality(created) - 1
        /\ timelineGroups[1].last = markerPosition - 1
        /\ timelineGroups[1].last < Len(time_line)
        /\ LET inside == {time_line[p + 1] :
                            p \in timelineGroups[1].first..timelineGroups[1].last}
           IN  /\ inside = created
               /\ inside \cap existing = {}

C3_Witness ==
    /\ gpc = "closed"
    /\ Cardinality(created) = 2
    /\ start_index >= 1
    /\ markerPosition < Len(time_line)

\* C4: sketch_by_name returns None when no sketch has the name, and
\* otherwise the last sketch, in iteration order, that has it.
C4_LastMatchOrNone ==
    spc = "done" =>
        LET matches == {p \in 1..Len(sketches) : sketches[p] = name} IN
            IF matches = {} THEN return_sketch = None
            ELSE /\ return_sketch \in matches
                 /\ return_sketch = MaxOf(matches)

C4_Witness ==
    /\ spc = "done"
    /\ Cardinality({p \in 1..Len(sketches) : sketches[p] = name}) >= 2
    /\ sketches[Len(sketches)] # name
    /\ return_sketch # None

\* C5: rect_body_pattern terminates for every x_qty and y_qty, having added
\* max(x_qty - 1, 0) + max(y_qty - 1, 0) move features and made
\* (max(x_qty, 1) * max(y_qty, 1) - 1) * |bodies| copies; with x_qty <= 1 and
\* y_qty <= 1 it copies nothing, moves nothing and returns the source
\* bodies; bodies is not extended during the x loop's iteration over it, nor
\* x_bodies during the y loop's iteration over it.
C5_Counts ==
    pc = "done" =>
        /\ Len(move_feats) = Max(x_qty - 1, 0) + Max(y_qty - 1, 0)
        /\ NumCopies = (Max(x_qty, 1) * Max(y_qty, 1) - 1) * Len(bodies)
        /\ (x_qty <= 1 /\ y_qty <= 1) =>
              /\ NumCopies = 0
              /\ move_feats = <<>>
              /\ result = bodies

C5_NotExtendedWhileIterated ==
    /\ pc = "xcopy" => bodies' = bodies
    /\ pc = "ycopy" => x_bodies' = x_bodies

C5_TerminatesWithBoundedWork ==
    /\ []C5_Counts
    /\ [][C5_NotExtendedWhileIterated]_vars
    /\ <>(pc = "done")

C5_Witness ==
    /\ pc = "done" /\ x_qty = 0 - 1 /\ y_qty = 3 /\ Len(bodies) = 2
    /\ NumCopies = 4 /\ Len(move_feats) = 2

====
